---- MODULE Spec2Model ----
\* A model of the FFI-Utils boundary toolkit: the per-thread last-error slot
\* (src/src/error.rs) and the pointer/string conversion helpers that report
\* into it (src/src/util.rs).
\*
\* Text and byte strings are sequences of byte values (Rust's String, &str
\* and Vec<u8> are all UTF-8 / raw bytes), so formatting, nul-termination and
\* UTF-8 validation are computed, not assumed.
EXTENDS Integers, Sequences, FiniteSets, TLC

\* ---------------------------------------------------------------- bounds

\* Number of heap addresses the allocator can hand out (besides null).
MaxAddr == 1

\* ------------------------------------------------------- input alphabets

\* Two execution threads, each with its own LAST_ERROR slot.
Threads == {"A", "B"}

\* &'static str context labels: "ctx".
Contexts == { <<99, 116, 120>> }

\* Display output of caller-supplied errors: "boom".
Errors == { <<98, 111, 111, 109>> }

\* Values of the boxed type T and of the closure result type R.
Vals == {0, 1}

\* Byte sequences handed to string_to_ptr / string_result_to_ptr:
\*   ""            empty
\*   C3 A9         a valid two-byte UTF-8 sequence (not ASCII)
\*   C3 28         an invalid UTF-8 sequence (bad continuation byte)
\*   "a" 00 "b"    an embedded terminator at position 1
ByteInputs == { <<>>, <<195, 169>>, <<195, 40>>, <<97, 0, 98>> }

\* The fallback (error_return_value) callers pass: -1, which no successful
\* call returns.
Fallbacks == {-1}

\* Closures passed to with: FnOnce(&mut T) -> R, by what they do to the
\* pointee.  "flip" replaces the pointee by 1 - v and returns the old value.
\* Besides that a closure is caller code and may call the toolkit itself
\* while with is running.
ObjFns == {"flip"}

\* Closures passed to with_str: FnOnce(&str) -> R, by what they compute
\* from the text; they too may call the toolkit while with_str is running.
\*   "ascii" returns 1 when every byte is below 128 and 0 otherwise.
StrFns == {"ascii"}

\* ---------------------------------------------------------------- values

\* std::ptr::null_mut()
NULL == 0

Addrs == 1..MaxAddr

\* Result<T, E>
Ok(v) == [ok |-> TRUE, val |-> v]

Err(e) == [ok |-> FALSE, err |-> e]

\* A heap cell that no raw pointer owns.
Free == [kind |-> "free"]

\* The allocation behind Box::into_raw(Box::new(object)).
BoxCell(object) == [kind |-> "box", val |-> object]

\* The allocation behind CString::into_raw: the nul-terminated buffer.
CStrCell(buffer) == [kind |-> "cstr", mem |-> buffer]

\* ---------------------------------------------------------------- state

VARIABLES
    LAST_ERROR,   \* [Threads -> byte string]: the thread_local slot
    heap,         \* [Addrs -> cell]: allocations owned through raw pointers
    last,         \* record of the most recent call (caller, inputs, outputs)
    own,          \* [Threads -> byte string]: history variable, the message
                  \* the thread's own calls wrote last ("" if none ever did)
    origin,       \* [Addrs -> bytes]: history variable, the byte sequence a
                  \* live C string was built from
    pc            \* [Threads -> record]: the with / with_str call the thread
                  \* is inside (its closure has not returned yet), or Idle

vars == <<LAST_ERROR, heap, last, own, origin, pc>>

\* ------------------------------------------------------- error store

\* "Error "
ErrorPrefix == <<69, 114, 114, 111, 114, 32>>

\* ": "
ErrorSep == <<58, 32>>

\* "Invalid pointer"
InvalidPointer ==
    <<73, 110, 118, 97, 108, 105, 100, 32, 112, 111, 105, 110, 116, 101, 114>>

\* "Invalid string pointer"
InvalidStringPointer ==
    <<73, 110, 118, 97, 108, 105, 100, 32, 115, 116, 114, 105, 110, 103, 32,
      112, 111, 105, 110, 116, 101, 114>>

\* format!("Error {}: {}", context, error)
format(context, error) == ErrorPrefix \o context \o ErrorSep \o error

\* The world a call runs in: the slots, the heap, and two instrumentation
\* fields that count what the call did: writes (number of set_last_error
\* executions) and calls (the arguments the closure was invoked with), and
\* the allocator's out-of-memory flag.
World ==
    [err |-> LAST_ERROR, heap |-> heap, writes |-> 0, calls |-> <<>>,
     oom |-> FALSE]

\* Variant: one process-wide slot instead of a thread_local one.
set_last_error_shared(w, t, context, error) ==
    [w EXCEPT !.err = [u \in Threads |-> format(context, error)],
              !.writes = @ + 1]

\* set_last_error on thread t: overwrite t's slot with the formatted message.
set_last_error(w, t, context, error) ==
    [w EXCEPT !.err[t] = format(context, error), !.writes = @ + 1]

\* Variant: the read moves the message out (std::mem::take) and so clears
\* the slot.
get_last_error_take(w, t) ==
    [ret |-> w.err[t], w |-> [w EXCEPT !.err[t] = <<>>]]

\* get_last_error on thread t: a clone of t's slot; the slot is only borrowed.
get_last_error(w, t) == [ret |-> w.err[t], w |-> w]

\* --------------------------------------------------- std library pieces

\* "nul byte found in provided data at position: "
NulErrorPrefix ==
    <<110, 117, 108, 32, 98, 121, 116, 101, 32, 102, 111, 117, 110, 100, 32,
      105, 110, 32, 112, 114, 111, 118, 105, 100, 101, 100, 32, 100, 97, 116,
      97, 32, 97, 116, 32, 112, 111, 115, 105, 116, 105, 111, 110, 58, 32>>

\* Display of a usize: its decimal digits as ASCII bytes.
RECURSIVE Decimal(_)
Decimal(n) ==
    IF n < 10 THEN <<48 + n>> ELSE Decimal(n \div 10) \o <<48 + (n % 10)>>

\* Index (1-based) of the first zero byte of a sequence that has one.
FirstNul(bytes) ==
    CHOOSE i \in 1..Len(bytes) :
        bytes[i] = 0 /\ \A j \in 1..(i - 1) : bytes[j] # 0

HasNul(bytes) == \E i \in 1..Len(bytes) : bytes[i] = 0

\* Display of std::ffi::NulError for a zero byte at 0-based position pos.
NulErrorDisplay(pos) == NulErrorPrefix \o Decimal(pos)

\* Variant: no scan for an interior zero byte (from_vec_unchecked).
CStringNew_unchecked(bytes) == Ok(bytes \o <<0>>)

\* CString::new(bytes): Err(NulError) carrying the position of the first
\* zero byte, else Ok of the buffer with the terminator appended.  The error
\* is represented by its Display output, which is all the callers use.
CStringNew(bytes) ==
    IF HasNul(bytes)
    THEN Err(NulErrorDisplay(FirstNul(bytes) - 1))
    ELSE Ok(bytes \o <<0>>)

\* strlen: the number of bytes before the first terminator.
strlen(mem) == FirstNul(mem) - 1

\* CStr::from_ptr(p).to_bytes(): the bytes before the first terminator.
CStrFromPtr(mem) == SubSeq(mem, 1, strlen(mem))

IsCont(b) == 128 <= b /\ b <= 191

\* core::str::from_utf8 as a predicate: is the byte sequence well-formed
\* UTF-8 (no overlong forms, no surrogates, nothing above U+10FFFF).
RECURSIVE IsUtf8(_)
IsUtf8(s) ==
    IF s = <<>> THEN TRUE
    ELSE
      LET b == s[1]
          n == Len(s)
          rest(k) == SubSeq(s, k + 1, n)
      IN  IF b < 128 THEN IsUtf8(rest(1))
          ELSE IF 194 <= b /\ b <= 223
            THEN n >= 2 /\ IsCont(s[2]) /\ IsUtf8(rest(2))
          ELSE IF 224 <= b /\ b <= 239
            THEN /\ n >= 3
                 /\ IsCont(s[2]) /\ IsCont(s[3])
                 /\ (b = 224 => s[2] >= 160)
                 /\ (b = 237 => s[2] <= 159)
                 /\ IsUtf8(rest(3))
          ELSE IF 240 <= b /\ b <= 244
            THEN /\ n >= 4
                 /\ IsCont(s[2]) /\ IsCont(s[3]) /\ IsCont(s[4])
                 /\ (b = 240 => s[2] >= 144)
                 /\ (b = 244 => s[2] <= 143)
                 /\ IsUtf8(rest(4))
          ELSE FALSE

\* The global allocator placing a new cell at address a.  a = NULL stands
\* for an exhausted heap: allocation failure aborts the process, which the
\* oom flag records so that such runs are cut off.
alloc(w, a, cell) ==
    IF a = NULL THEN [w EXCEPT !.oom = TRUE] ELSE [w EXCEPT !.heap[a] = cell]

\* Applying a with-closure to the pointee v: the result and the new pointee.
ObjApply(f, v) ==
    IF f = "flip" THEN [ret |-> v, val |-> 1 - v] ELSE [ret |-> v, val |-> v]

\* Applying a with_str-closure to the text s.
StrApply(f, s) ==
    IF f = "ascii"
    THEN (IF \A i \in 1..Len(s) : s[i] < 128 THEN 1 ELSE 0)
    ELSE 0

\* ------------------------------------------------------------- util.rs

\* object_to_ptr: Box::into_raw(Box::new(object)) at the address a the
\* allocator picks.
object_to_ptr(w, a, object) ==
    [ret |-> a, w |-> alloc(w, a, BoxCell(object))]

\* CString::into_raw at the address a the allocator picks.
into_raw(w, a, cstring) ==
    [ret |-> a, w |-> alloc(w, a, CStrCell(cstring))]

\* Variant: the Err arm returns the fallback without recording the error.
handle_result_silent(w, t, context, error_return_value, result) ==
    IF result.ok
    THEN [ret |-> result.val, w |-> w]
    ELSE [ret |-> error_return_value, w |-> w]

\* Variant: the Ok arm resets the slot to the empty string.
handle_result_clearing(w, t, context, error_return_value, result) ==
    IF result.ok
    THEN [ret |-> result.val, w |-> [w EXCEPT !.err[t] = <<>>]]
    ELSE [ret |-> error_return_value,
          w |-> set_last_error(w, t, context, result.err)]

\* handle_result (the function): the value on Ok; on Err write the error
\* store and return error_return_value.
handle_result(w, t, context, error_return_value, result) ==
    IF result.ok
    THEN [ret |-> result.val, w |-> w]
    ELSE [ret |-> error_return_value,
          w |-> set_last_error(w, t, context, result.err)]

\* string_to_ptr: CString::new(string).map(CString::into_raw) is evaluated
\* first (allocating only on Ok), then funnelled through handle_result.
string_to_ptr(w, t, a, context, string) ==
    LET c == CStringNew(string)
    IN  IF c.ok
        THEN LET r == into_raw(w, a, c.val)
             IN  handle_result(r.w, t, context, NULL, Ok(r.ret))
        ELSE handle_result(w, t, context, NULL, c)

\* Variant: the null arm reports the string flavour of the message.
take_ownership_swapped(w, raw_ptr) ==
    IF raw_ptr = NULL
    THEN [ret |-> Err(InvalidStringPointer), w |-> w]
    ELSE [ret |-> Ok(w.heap[raw_ptr].val),
          w |-> [w EXCEPT !.heap[raw_ptr] = Free]]

\* take_ownership: Err on null; else the boxed value moves out and the raw
\* pointer no longer owns the cell.
take_ownership(w, raw_ptr) ==
    IF raw_ptr = NULL
    THEN [ret |-> Err(InvalidPointer), w |-> w]
    ELSE [ret |-> Ok(w.heap[raw_ptr].val),
          w |-> [w EXCEPT !.heap[raw_ptr] = Free]]

\* Variant: the buffer is rebuilt from strlen bytes, without the terminator.
take_string_ownership_short(w, string_ptr) ==
    IF string_ptr = NULL
    THEN [ret |-> Err(InvalidStringPointer), w |-> w]
    ELSE LET mem == w.heap[string_ptr].mem
         IN  [ret |-> Ok(SubSeq(mem, 1, strlen(mem))),
              w |-> [w EXCEPT !.heap[string_ptr] = Free]]

\* take_string_ownership: Err on null; else CString::from_raw rebuilds the
\* owned buffer of strlen + 1 bytes and the raw pointer no longer owns it.
take_string_ownership(w, string_ptr) ==
    IF string_ptr = NULL
    THEN [ret |-> Err(InvalidStringPointer), w |-> w]
    ELSE LET mem == w.heap[string_ptr].mem
         IN  [ret |-> Ok(SubSeq(mem, 1, strlen(mem) + 1)),
              w |-> [w EXCEPT !.heap[string_ptr] = Free]]

\* result_to_ptr: result.map(object_to_ptr) is evaluated first (allocating
\* only on Ok), then funnelled through handle_result.
result_to_ptr(w, t, a, context, result) ==
    IF result.ok
    THEN LET r == object_to_ptr(w, a, result.val)
         IN  handle_result(r.w, t, context, NULL, Ok(r.ret))
    ELSE handle_result(w, t, context, NULL, result)

\* Variant: the handle_result function in place of the macro, with an empty
\* fallback string, so an Err goes on to string construction.
string_result_to_ptr_fn(w, t, a, context, result) ==
    LET h == handle_result(w, t, context, <<>>, result)
    IN  string_to_ptr(h.w, t, a, context, h.ret)

\* string_result_to_ptr: the handle_result! macro returns null from the
\* enclosing function on Err, after one write; on Ok its value goes on to
\* string_to_ptr.
string_result_to_ptr(w, t, a, context, result) ==
    IF result.ok
    THEN string_to_ptr(w, t, a, context, result.val)
    ELSE [ret |-> NULL, w |-> set_last_error(w, t, context, result.err)]

\* Variant: the null arm reports the string flavour of the message.
with_wrong_message(w, t, context, t_ptr, error_return_value, f) ==
    IF t_ptr # NULL
    THEN LET v == w.heap[t_ptr].val
             r == ObjApply(f, v)
         IN  [ret |-> r.ret,
              w |-> [w EXCEPT !.heap[t_ptr].val = r.val,
                              !.calls = Append(@, v)]]
    ELSE [ret |-> error_return_value,
          w |-> set_last_error(w, t, context, InvalidStringPointer)]

\* with: run f on the pointee of a non-null pointer; on null record
\* "Invalid pointer" and return error_return_value.
with(w, t, context, t_ptr, error_return_value, f) ==
    IF t_ptr # NULL
    THEN LET v == w.heap[t_ptr].val
             r == ObjApply(f, v)
         IN  [ret |-> r.ret,
              w |-> [w EXCEPT !.heap[t_ptr].val = r.val,
                              !.calls = Append(@, v)]]
    ELSE [ret |-> error_return_value,
          w |-> set_last_error(w, t, context, InvalidPointer)]

\* Variant: a null pointer is an error, as it is for with.
with_str_null_error(w, t, context, c_str, error_return_value, f) ==
    IF c_str = NULL
    THEN [ret |-> error_return_value,
          w |-> set_last_error(w, t, context, InvalidStringPointer)]
    ELSE LET str == CStrFromPtr(w.heap[c_str].mem)
         IN  IF IsUtf8(str)
             THEN [ret |-> StrApply(f, str),
                   w |-> [w EXCEPT !.calls = Append(@, str)]]
             ELSE [ret |-> error_return_value,
                   w |-> set_last_error(w, t, context, InvalidStringPointer)]

\* with_str: null is the empty text; otherwise the bytes before the
\* terminator are validated as UTF-8 and f runs on them, or "Invalid string
\* pointer" is recorded and error_return_value returned.
with_str(w, t, context, c_str, error_return_value, f) ==
    IF c_str = NULL
    THEN [ret |-> StrApply(f, <<>>), w |-> [w EXCEPT !.calls = Append(@, <<>>)]]
    ELSE LET str == CStrFromPtr(w.heap[c_str].mem)
         IN  IF IsUtf8(str)
             THEN [ret |-> StrApply(f, str),
                   w |-> [w EXCEPT !.calls = Append(@, str)]]
             ELSE [ret |-> error_return_value,
                   w |-> set_last_error(w, t, context, InvalidStringPointer)]

\* ------------------------------------------------------------- calls

\* Placeholder for a field of the call record that the call does not have.
None == "-"

\* Addresses the allocator may return: any free cell, or NULL when the
\* call turns out not to allocate.
FreeAddrs == {a \in Addrs : heap[a] = Free}

\* A thread that is not inside a with / with_str call.
Idle == [op |-> "idle"]

\* Pointers lent to a with / with_str call that has not returned yet.
Borrowed == {pc[t].ptr : t \in {u \in Threads : pc[u] # Idle}} \ {NULL}

\* Pointers a caller may pass where a *mut T is expected: null, or a pointer
\* it received from object_to_ptr / result_to_ptr, has not given back, and
\* which no call in progress is operating on.  Anything else (a dangling
\* pointer, or a second call racing on the pointer while with holds its
\* &mut T) is undefined behaviour in the unsafe blocks; the toolkit takes no
\* lock and leaves both to the caller, and callers here keep that contract.
ObjPtrs ==
    {NULL} \cup {a \in Addrs : heap[a].kind = "box" /\ a \notin Borrowed}

\* Pointers a caller may pass to with_str: null, or a pointer it received
\* from string_to_ptr / string_result_to_ptr and has not given back.  The
\* buffer is only read, so several with_str calls may share it.
StrPtrs == {NULL} \cup {a \in Addrs : heap[a].kind = "cstr"}

\* Pointers a caller may pass to take_string_ownership: as StrPtrs, and no
\* with_str call in progress is reading the buffer.
OwnedStrPtrs == StrPtrs \ Borrowed

\* Result<T, E> inputs over a value set.
Results(vals) == {Ok(v) : v \in vals} \cup {Err(e) : e \in Errors}

\* The effect of one call by thread t: r is what the function returned and
\* the world it left.  A call never returns when allocation failed, and the
\* allocator's address is NULL exactly when nothing was allocated.
Commit(op, t, ctx, arg, erv, f, a, r) ==
    /\ ~r.w.oom
    /\ (a # NULL) = (r.w.heap # heap /\ a \in FreeAddrs)
    /\ LAST_ERROR' = r.w.err
    /\ heap' = r.w.heap
    /\ own' = [own EXCEPT ![t] = IF r.w.writes > 0 THEN r.w.err[t] ELSE @]
    /\ origin' = [p \in Addrs |->
                    IF r.w.heap[p].kind # "cstr" THEN None
                    ELSE IF p # a THEN origin[p]
                    ELSE IF op = "string_to_ptr" THEN arg
                    ELSE IF arg.ok THEN arg.val ELSE None]
    /\ last' = [op |-> op, t |-> t, ctx |-> ctx, arg |-> arg, erv |-> erv,
                f |-> f, ret |-> r.ret, writes |-> r.w.writes,
                calls |-> r.w.calls]

\* A call that runs no caller code: one step.
Call(op, t, ctx, arg, erv, f, a, r) ==
    /\ Commit(op, t, ctx, arg, erv, f, a, r)
    /\ UNCHANGED pc

\* Entering the closure of a with / with_str call: the function has checked
\* its pointer and handed the borrow to the caller's closure, which has not
\* returned yet.  Until it returns, the thread's calls are the closure's:
\* closures here call the error-reporting functions (set_last_error,
\* get_last_error, handle_result) and nothing else of the toolkit.
Enter(op, t, ctx, ptr, erv, f) ==
    /\ pc' = [pc EXCEPT ![t] = [op |-> op, ctx |-> ctx, ptr |-> ptr,
                                erv |-> erv, f |-> f]]
    /\ UNCHANGED <<LAST_ERROR, heap, last, own, origin>>

SetLastError(t) ==
    \E ctx \in Contexts, e \in Errors :
        Call("set_last_error", t, ctx, e, None, None, NULL,
               [ret |-> None, w |-> set_last_error(World, t, ctx, e)])

GetLastError(t) ==
    Call("get_last_error", t, None, None, None, None, NULL,
           get_last_error(World, t))

ObjectToPtr(t) ==
    /\ pc[t] = Idle
    /\ \E a \in FreeAddrs, v \in Vals :
        Call("object_to_ptr", t, None, v, None, None, a,
               object_to_ptr(World, a, v))

StringToPtr(t) ==
    /\ pc[t] = Idle
    /\ \E a \in FreeAddrs \cup {NULL}, ctx \in Contexts, s \in ByteInputs :
        Call("string_to_ptr", t, ctx, s, None, None, a,
               string_to_ptr(World, t, a, ctx, s))

TakeOwnership(t) ==
    /\ pc[t] = Idle
    /\ \E p \in ObjPtrs :
        Call("take_ownership", t, None, p, None, None, NULL,
               take_ownership(World, p))

TakeStringOwnership(t) ==
    /\ pc[t] = Idle
    /\ \E p \in OwnedStrPtrs :
        Call("take_string_ownership", t, None, p, None, None, NULL,
               take_string_ownership(World, p))

HandleResult(t) ==
    \E ctx \in Contexts, erv \in Fallbacks, res \in Results(Vals) :
        Call("handle_result", t, ctx, res, erv, None, NULL,
               handle_result(World, t, ctx, erv, res))

ResultToPtr(t) ==
    /\ pc[t] = Idle
    /\ \E a \in FreeAddrs \cup {NULL}, ctx \in Contexts, res \in Results(Vals) :
        Call("result_to_ptr", t, ctx, res, None, None, a,
               result_to_ptr(World, t, a, ctx, res))

StringResultToPtr(t) ==
    /\ pc[t] = Idle
    /\ \E a \in FreeAddrs \cup {NULL}, ctx \in Contexts,
       res \in Results(ByteInputs) :
        Call("string_result_to_ptr", t, ctx, res, None, None, a,
               string_result_to_ptr(World, t, a, ctx, res))

\* with: on a null pointer the whole call is one step; otherwise the
\* closure is entered with the pointee borrowed.
With(t) ==
    /\ pc[t] = Idle
    /\ \E ctx \in Contexts, p \in ObjPtrs, erv \in Fallbacks, f \in ObjFns :
          LET r == with(World, t, ctx, p, erv, f)
          IN  IF r.w.calls = <<>>
              THEN Call("with", t, ctx, p, erv, f, NULL, r)
              ELSE Enter("with", t, ctx, p, erv, f)

\* The closure of a with call acts on the pointee and returns; with returns
\* its result.
WithReturn(t) ==
    /\ pc[t] # Idle
    /\ pc[t].op = "with"
    /\ Commit("with", t, pc[t].ctx, pc[t].ptr, pc[t].erv, pc[t].f, NULL,
              with(World, t, pc[t].ctx, pc[t].ptr, pc[t].erv, pc[t].f))
    /\ pc' = [pc EXCEPT ![t] = Idle]

\* with_str: on bytes that are not UTF-8 the whole call is one step;
\* otherwise the closure is entered with the buffer (or the empty text)
\* borrowed.
WithStr(t) ==
    /\ pc[t] = Idle
    /\ \E ctx \in Contexts, p \in StrPtrs, erv \in Fallbacks, f \in StrFns :
          LET r == with_str(World, t, ctx, p, erv, f)
          IN  IF r.w.calls = <<>>
              THEN Call("with_str", t, ctx, p, erv, f, NULL, r)
              ELSE Enter("with_str", t, ctx, p, erv, f)

\* The closure of a with_str call computes its result from the text and
\* returns; with_str returns that result.
WithStrReturn(t) ==
    /\ pc[t] # Idle
    /\ pc[t].op = "with_str"
    /\ Commit("with_str", t, pc[t].ctx, pc[t].ptr, pc[t].erv, pc[t].f, NULL,
              with_str(World, t, pc[t].ctx, pc[t].ptr, pc[t].erv, pc[t].f))
    /\ pc' = [pc EXCEPT ![t] = Idle]

\* ------------------------------------------------------- specification

\* Thread start: every slot is String::new(), nothing has been handed out.
Init ==
    /\ LAST_ERROR = [t \in Threads |-> <<>>]
    /\ heap = [a \in Addrs |-> Free]
    /\ own = [t \in Threads |-> <<>>]
    /\ origin = [a \in Addrs |-> None]
    /\ pc = [t \in Threads |-> Idle]
    /\ last = [op |-> "init", t |-> None, ctx |-> None, arg |-> None,
               erv |-> None, f |-> None, ret |-> None, writes |-> 0,
               calls |-> <<>>]

Next ==
    \E t \in Threads :
        \/ SetLastError(t)
        \/ GetLastError(t)
        \/ ObjectToPtr(t)
        \/ StringToPtr(t)
        \/ TakeOwnership(t)
        \/ TakeStringOwnership(t)
        \/ HandleResult(t)
        \/ ResultToPtr(t)
        \/ StringResultToPtr(t)
        \/ With(t)
        \/ WithReturn(t)
        \/ WithStr(t)
        \/ WithStrReturn(t)

Spec == Init /\ [][Next]_vars

\* ---------------------------------------------------------- properties

\* The bytes of "Error {context}: {error}", spelled out.
ExpectedMessage(context, error) ==
    <<69, 114, 114, 111, 114, 32>> \o context \o <<58, 32>> \o error

\* The bytes of "Invalid pointer" and "Invalid string pointer", spelled out.
TextInvalidPointer ==
    <<73, 110, 118, 97, 108, 105, 100, 32, 112, 111, 105, 110, 116, 101, 114>>

TextInvalidStringPointer ==
    <<73, 110, 118, 97, 108, 105, 100, 32, 115, 116, 114, 105, 110, 103, 32,
      112, 111, 105, 110, 116, 101, 114>>

\* The bytes of "ctx", "boom" and "Error ctx: boom".
TextCtx == <<99, 116, 120>>

TextBoom == <<98, 111, 111, 109>>

TextErrorCtxBoom ==
    <<69, 114, 114, 111, 114, 32, 99, 116, 120, 58, 32, 98, 111, 111, 109>>

\* Does the byte sequence contain a zero byte.
ContainsZero(bytes) == 0 \in {bytes[i] : i \in 1..Len(bytes)}

\* The inputs that are well-formed UTF-8 text: "", "a", U+00E9.
ValidTexts == { <<>>, <<97>>, <<195, 169>> }

\* The text a live C string holds: its buffer up to the final terminator.
TextAt(cell) == SubSeq(cell.mem, 1, Len(cell.mem) - 1)

IsPrefix(p, s) == Len(p) <= Len(s) /\ SubSeq(s, 1, Len(p)) = p

\* A step in which a with / with_str call hands control to its closure.
EnterStep == \E t \in Threads : pc[t] = Idle /\ pc'[t] # Idle

\* A step in which a call of the named function returns; last' is then the
\* record of that call.
Completes(op) == ~EnterStep /\ last'.op = op

\* C1: a thread's slot holds, and get_last_error on it returns, only what
\* that thread's own calls wrote last (the empty string if it never wrote);
\* no call on another thread changes it.
C1_OwnMessagesOnly ==
    /\ \A a \in Threads : LAST_ERROR[a] = own[a]
    /\ (last.op = "get_last_error" => last.ret = own[last.t])

\* C1 witness: a get on one thread returned its own message while the other
\* thread's slot holds a different message of its own.
C1_Witness ==
    /\ last.op = "get_last_error"
    /\ last.ret # <<>>
    /\ \E b \in Threads \ {last.t} :
          LAST_ERROR[b] # <<>> /\ LAST_ERROR[b] # last.ret

\* C2: set_last_error leaves exactly "Error {context}: {error}" in the
\* caller's slot, whatever was there; get_last_error returns the slot's
\* content and changes no slot.
C2_LastSetWins ==
    [][ /\ (Completes("set_last_error") =>
              LAST_ERROR'[last'.t] = ExpectedMessage(last'.ctx, last'.arg))
        /\ (Completes("get_last_error") =>
              /\ last'.ret = LAST_ERROR[last'.t]
              /\ LAST_ERROR' = LAST_ERROR) ]_vars

\* C2 witness: a get returned a message that a set_last_error produced.
C2_Witness ==
    /\ last.op = "get_last_error"
    /\ last.ret = TextErrorCtxBoom
    /\ LAST_ERROR[last.t] = TextErrorCtxBoom

\* C3: result_to_ptr returns null on Err and leaves "Error c: e" in the
\* caller's slot, and on Ok(v) returns a non-null pointer to a boxed v;
\* handle_result returns the value on Ok, and on Err the fallback with
\* "Error c: e" in the caller's slot.
C3_ResultToPtr ==
    /\ (last.op = "result_to_ptr" =>
          IF last.arg.ok
          THEN /\ last.ret # NULL
               /\ heap[last.ret] = [kind |-> "box", val |-> last.arg.val]
          ELSE /\ last.ret = NULL
               /\ LAST_ERROR[last.t] = ExpectedMessage(last.ctx, last.arg.err))
    /\ (last.op = "handle_result" =>
          IF last.arg.ok
          THEN last.ret = last.arg.val
          ELSE /\ last.ret = last.erv
               /\ LAST_ERROR[last.t] = ExpectedMessage(last.ctx, last.arg.err))

\* C3 witness: result_to_ptr("ctx", Err("boom")) returned null and the slot
\* reads "Error ctx: boom".
C3_Witness ==
    /\ last.op = "result_to_ptr"
    /\ last.ctx = TextCtx
    /\ last.arg = [ok |-> FALSE, err |-> TextBoom]
    /\ last.ret = NULL
    /\ LAST_ERROR[last.t] = TextErrorCtxBoom

\* C4: with on null returns the fallback, never runs the closure and leaves
\* "Error {context}: Invalid pointer" in the caller's slot; on a non-null
\* pointer it runs the closure exactly once on the pointee, by mutable
\* access, and returns the closure's result.
C4_With ==
    [][ Completes("with") =>
          IF last'.arg = NULL
          THEN /\ last'.ret = last'.erv
               /\ last'.calls = <<>>
               /\ LAST_ERROR'[last'.t] =
                     ExpectedMessage(last'.ctx, TextInvalidPointer)
          ELSE /\ last'.calls = <<heap[last'.arg].val>>
               /\ last'.ret = ObjApply(last'.f, heap[last'.arg].val).ret
               /\ heap'[last'.arg].val =
                     ObjApply(last'.f, heap[last'.arg].val).val ]_vars

\* C4 witness: with on null returned the fallback -1 without running the
\* closure and left "Error ctx: Invalid pointer" in the caller's slot.
C4_Witness ==
    /\ last.op = "with"
    /\ last.arg = NULL
    /\ last.ret = -1
    /\ last.calls = <<>>
    /\ LAST_ERROR[last.t] =
          <<69, 114, 114, 111, 114, 32, 99, 116, 120, 58, 32>>
             \o TextInvalidPointer

\* C5: with_str on null runs the closure exactly once on the empty text,
\* returns its result and records nothing itself (neither when it enters
\* the closure nor when it returns); on a non-null pointer it runs the
\* closure on the text when the bytes are valid UTF-8, and otherwise does
\* not run it, returns the fallback and leaves "Error {context}: Invalid
\* string pointer" in the caller's slot.
C5_WithStr ==
    [][ /\ (\E t \in Threads :
               pc[t] = Idle /\ pc'[t] # Idle /\ pc'[t].op = "with_str")
           => LAST_ERROR' = LAST_ERROR
        /\ Completes("with_str") =>
          IF last'.arg = NULL
          THEN /\ last'.calls = << <<>> >>
               /\ last'.ret = StrApply(last'.f, <<>>)
               /\ last'.writes = 0
               /\ LAST_ERROR' = LAST_ERROR
          ELSE IF TextAt(heap[last'.arg]) \in ValidTexts
          THEN /\ last'.calls = << TextAt(heap[last'.arg]) >>
               /\ last'.ret = StrApply(last'.f, TextAt(heap[last'.arg]))
          ELSE /\ last'.calls = <<>>
               /\ last'.ret = last'.erv
               /\ LAST_ERROR'[last'.t] =
                     ExpectedMessage(last'.ctx, TextInvalidStringPointer)
      ]_vars

\* C5 witness: with_str on null, with fallback -1, ran the "ascii" closure
\* on the empty text and returned its result 1.
C5_Witness ==
    /\ last.op = "with_str"
    /\ last.arg = NULL
    /\ last.f = "ascii"
    /\ last.erv = -1
    /\ last.ret = 1
    /\ last.calls = << <<>> >>

\* C6: string_to_ptr on bytes with a zero byte returns null, hands out no
\* allocation and leaves a message starting "Error {context}: " in the
\* caller's slot; on bytes without a zero byte it returns a non-null
\* pointer and does not write the error store.
C6_StringToPtr ==
    [][ Completes("string_to_ptr") =>
          IF ContainsZero(last'.arg)
          THEN /\ last'.ret = NULL
               /\ heap' = heap
               /\ last'.writes = 1
               /\ IsPrefix(ExpectedMessage(last'.ctx, <<>>),
                           LAST_ERROR'[last'.t])
          ELSE /\ last'.ret # NULL
               /\ heap[last'.ret].kind = "free"
               /\ heap'[last'.ret].kind = "cstr"
               /\ last'.writes = 0
               /\ LAST_ERROR' = LAST_ERROR ]_vars

\* C6 witness: string_to_ptr on "a\0b" returned null and wrote the slot.
C6_Witness ==
    /\ last.op = "string_to_ptr"
    /\ last.arg = <<97, 0, 98>>
    /\ last.ret = NULL
    /\ LAST_ERROR[last.t] # <<>>

\* C7: take_string_ownership on a pointer that string_to_ptr built from
\* bytes s returns Ok of an owned string whose bytes are s, and afterwards
\* the pointer owns no allocation.
C7_RoundTrip ==
    [][ (Completes("take_string_ownership") /\ last'.arg # NULL) =>
          /\ last'.ret.ok
          /\ Len(last'.ret.val) > 0
          /\ last'.ret.val[Len(last'.ret.val)] = 0
          /\ SubSeq(last'.ret.val, 1, Len(last'.ret.val) - 1)
               = origin[last'.arg]
          /\ heap'[last'.arg].kind = "free"
          /\ \A p \in Addrs \ {last'.arg} : heap'[p] = heap[p] ]_vars

\* C7 witness: a two-byte string came back from take_string_ownership and
\* nothing is left allocated.
C7_Witness ==
    /\ last.op = "take_string_ownership"
    /\ last.arg # NULL
    /\ last.ret = [ok |-> TRUE, val |-> <<195, 169, 0>>]
    /\ \A p \in Addrs : heap[p].kind = "free"

\* C8: take_ownership fails exactly on null, with "Invalid pointer", and
\* take_string_ownership fails exactly on null, with "Invalid string
\* pointer"; neither touches the error store; take_ownership on a live
\* pointer returns Ok of the boxed value.
C8_TakeOwnership ==
    [][ /\ (Completes("take_ownership") =>
              /\ last'.ret.ok = (last'.arg # NULL)
              /\ (last'.arg = NULL =>
                    last'.ret = [ok |-> FALSE, err |-> TextInvalidPointer])
              /\ (last'.arg # NULL =>
                    last'.ret = [ok |-> TRUE, val |-> heap[last'.arg].val])
              /\ last'.writes = 0
              /\ LAST_ERROR' = LAST_ERROR)
        /\ (Completes("take_string_ownership") =>
              /\ last'.ret.ok = (last'.arg # NULL)
              /\ (last'.arg = NULL =>
                    last'.ret =
                       [ok |-> FALSE, err |-> TextInvalidStringPointer])
              /\ last'.writes = 0
              /\ LAST_ERROR' = LAST_ERROR) ]_vars

\* C8 witness: take_ownership(null) returned Err("Invalid pointer") while
\* the caller's slot holds an earlier message.
C8_Witness ==
    /\ last.op = "take_ownership"
    /\ last.arg = NULL
    /\ ~last.ret.ok
    /\ LAST_ERROR[last.t] = TextErrorCtxBoom

\* C9: string_result_to_ptr returns null exactly when its input is Err or
\* is Ok of bytes with a zero byte; a failing call writes the error store
\* exactly once (for an Err input, the original error's message) and a
\* successful call writes it zero times.
C9_StringResultToPtr ==
    last.op = "string_result_to_ptr" =>
       LET fails == ~last.arg.ok \/ ContainsZero(last.arg.val)
       IN  /\ (last.ret = NULL) = fails
           /\ last.writes = (IF fails THEN 1 ELSE 0)
           /\ (~last.arg.ok =>
                 LAST_ERROR[last.t] = ExpectedMessage(last.ctx, last.arg.err))
           /\ (~fails => heap[last.ret].kind = "cstr")

\* C9 witness: string_result_to_ptr on Ok("a\0b") returned null after one
\* write.
C9_Witness ==
    /\ last.op = "string_result_to_ptr"
    /\ last.arg = [ok |-> TRUE, val |-> <<97, 0, 98>>]
    /\ last.ret = NULL
    /\ last.writes = 1

\* Did the most recent call, given the heap it started from, succeed as a
\* boundary operation.
Succeeds(c, h) ==
    \/ c.op \in {"handle_result", "result_to_ptr"} /\ c.arg.ok
    \/ c.op = "string_result_to_ptr" /\ c.arg.ok /\ ~ContainsZero(c.arg.val)
    \/ c.op = "string_to_ptr" /\ ~ContainsZero(c.arg)
    \/ c.op = "with" /\ c.arg # NULL
    \/ c.op = "with_str" /\ (c.arg = NULL \/ TextAt(h[c.arg]) \in ValidTexts)

\* C10: a boundary operation that succeeds does not write the error store:
\* every slot, the caller's included, is left as it was, both by the step
\* in which the operation returns and by the step in which with / with_str
\* enters its closure.
C10_SuccessLeavesSlot ==
    [][ /\ EnterStep => LAST_ERROR' = LAST_ERROR
        /\ (~EnterStep /\ Succeeds(last', heap)) =>
              /\ last'.writes = 0
              /\ LAST_ERROR' = LAST_ERROR ]_vars

\* C10 witness: after a successful handle_result the caller's slot still
\* holds an earlier failure's message.
C10_Witness ==
    /\ last.op = "handle_result"
    /\ last.arg.ok
    /\ LAST_ERROR[last.t] = TextErrorCtxBoom

====
